---- MODULE Spec2Model ----
(***************************************************************************)
(* Pixel value types of the `cr` crate (RGB, BGR, RGBA, BGRA, Gray,        *)
(* GrayAlpha), their flat and byte views, their array conversions and      *)
(* their channel-wise algebra.                                             *)
(*                                                                         *)
(* A pixel is a function from the field names of its struct to scalars.    *)
(* A scalar type is one of "unit" (the zero-sized `()`), "u8", "u16".      *)
(* The result of an operation is a record [tag, val]:                      *)
(*   tag = "ok"      val is the value returned                             *)
(*   tag = "panic"   the operation aborted (assert, unwrap, overflow)      *)
(*   tag = "no_impl" the crate defines no such operator for the variant    *)
(*   tag = "none"    no operation has run yet                              *)
(***************************************************************************)
EXTENDS Integers, Sequences, FiniteSets, TLC

VARIABLES
    variant,        \* the pixel type in use
    ty,             \* the scalar type T of its channels
    overflowChecks, \* build profile: TRUE = overflow panics, FALSE = it wraps
    bigEndian,      \* host byte order
    buf,            \* the caller's buffer: a sequence of pixels
    p,              \* left operand / receiver pixel
    q,              \* right operand pixel
    arr,            \* a fixed-size array [T; N]
    op,             \* the last operation that ran
    arg,            \* its extra argument (scalar, callback, count)
    res,            \* its result
    steps           \* how many in-place operators have run on p

vars == <<variant, ty, overflowChecks, bigEndian, buf, p, q, arr, op, arg, res, steps>>

\* ------------------------------------------------------------------ bounds

\* longest buffer the caller builds
MaxPixels == 2

\* longest chain of array <-> struct conversions
MaxConv == 4

\* most elements an iterator handed to from_iter yields
MaxIter == 4

\* longest sequence of in-place operators applied to one pixel
MaxAssign == 2

\* ------------------------------------------------------------- scalar types

ScalarTypes == {"unit", "u8", "u16"}

\* core::mem::size_of::<T>()
SizeOf(t) == CASE t = "unit" -> 0 [] t = "u8" -> 1 [] t = "u16" -> 2

\* number of values of T: 2^(8 * size_of T)
Modulus(t) == CASE t = "unit" -> 1 [] t = "u8" -> 256 [] t = "u16" -> 65536

MaxValue(t) == Modulus(t) - 1

\* the scalar values the operands are drawn from
Samples(t) == CASE t = "unit" -> {0}
                [] t = "u8" -> {0, 2, 255}
                [] t = "u16" -> {0, 2, 65535}

\* the scalar values the right-hand pixel is drawn from
RhsSamples(t) == CASE t = "unit" -> {0}
                   [] t = "u8" -> {2, 255}
                   [] t = "u16" -> {2, 65535}

\* the scalar values buffers are filled with
BufSamples(t) == CASE t = "unit" -> {0}
                   [] t = "u8" -> {1, 255}
                   [] t = "u16" -> {1, 65535}

Ok(v) == [tag |-> "ok", val |-> v]
Panic == [tag |-> "panic", val |-> <<>>]
NoImpl == [tag |-> "no_impl", val |-> <<>>]
None == [tag |-> "none", val |-> <<>>]

\* ------------------------------------------------------------ pixel types

Variants == {"RGB", "BGR", "RGBA", "BGRA", "Gray", "GrayAlpha"}

\* The fields of each struct in the order they are declared. The structs hold
\* fields of one type T, which rustc lays out in declaration order.
Fields(v) == CASE v = "RGB" -> <<"r", "g", "b">>
               [] v = "BGR" -> <<"b", "g", "r">>
               [] v = "RGBA" -> <<"r", "g", "b", "a">>
               [] v = "BGRA" -> <<"b", "g", "r", "a">>
               [] v = "Gray" -> <<"0">>
               [] v = "GrayAlpha" -> <<"0", "1">>

Arity(v) == Len(Fields(v))

FieldSet(v) == {Fields(v)[i] : i \in 1..Arity(v)}

Pixels(v, S) == [FieldSet(v) -> S]

\* #[derive(Default)]: every channel is T::default() = 0
DefaultPixel(v) == [k \in FieldSet(v) |-> 0]

\* -------------------------------------------------------- scalar operators

\* T as Add: `a + b` on an unsigned integer of the width of ty
ScalarAdd(a, b) == IF a + b > MaxValue(ty)
                   THEN IF overflowChecks THEN Panic ELSE Ok((a + b) % Modulus(ty))
                   ELSE Ok(a + b)

\* T as Sub: `a - b`
ScalarSub(a, b) == IF a < b
                   THEN IF overflowChecks THEN Panic ELSE Ok((a - b + Modulus(ty)) % Modulus(ty))
                   ELSE Ok(a - b)

\* a * b modulo 2^(8 * size_of T), computed without leaving 32 bits
WrappingMul(a, b) == ((a % 256) * b + (((a \div 256) * b) % 256) * 256) % Modulus(ty)

\* T as Mul: `a * b`
ScalarMul(a, b) == IF a # 0 /\ b > MaxValue(ty) \div a
                   THEN IF overflowChecks THEN Panic ELSE Ok(WrappingMul(a, b))
                   ELSE Ok(a * b)

\* T as Div: `a / b`; division by zero panics in every build
ScalarDiv(a, b) == IF b = 0 THEN Panic ELSE Ok(a \div b)

\* A struct expression `$ty { field: expr, ... }`: a panic in any field's
\* expression aborts the whole expression.
Collect(v, chan) == IF \E k \in FieldSet(v) : chan[k].tag = "panic"
                    THEN Panic
                    ELSE Ok([k \in FieldSet(v) |-> chan[k].val])

\* ------------------------------------------------------- pixel (op) pixel

\* impl_struct_ops_opaque! {RGB => r g b}, {Gray => 0}
OpaqueOps == {"RGB", "Gray"}

\* impl_struct_ops_alpha! {RGBA => r g b a}, {GrayAlpha => 0 1}
AlphaOps == {"RGBA", "GrayAlpha"}

opaque_add(v, a, b) == Collect(v, [k \in FieldSet(v) |-> ScalarAdd(a[k], b[k])])

\* opaque_mul with the operator of opaque_add
opaque_mul_as_add(v, a, b) == Collect(v, [k \in FieldSet(v) |-> ScalarAdd(a[k], b[k])])

opaque_mul(v, a, b) == Collect(v, [k \in FieldSet(v) |-> ScalarMul(a[k], b[k])])

opaque_sub(v, a, b) == Collect(v, [k \in FieldSet(v) |-> ScalarSub(a[k], b[k])])

\* alpha_add that adds the colour channels and keeps the receiver's alpha
alpha_add_keep_alpha(v, a, b) == Collect(v, [k \in FieldSet(v) |-> IF k \in {"a", "1"} THEN Ok(a[k]) ELSE ScalarAdd(a[k], b[k])])

alpha_add(v, a, b) == Collect(v, [k \in FieldSet(v) |-> ScalarAdd(a[k], b[k])])

alpha_sub(v, a, b) == Collect(v, [k \in FieldSet(v) |-> ScalarSub(a[k], b[k])])

\* `a + b` for two pixels of variant v: the impl the compiler selects
Add_add(v, a, b) == IF v \in OpaqueOps THEN opaque_add(v, a, b)
                    ELSE IF v \in AlphaOps THEN alpha_add(v, a, b)
                    ELSE NoImpl

\* `a - b` for two pixels of variant v
Sub_sub(v, a, b) == IF v \in OpaqueOps THEN opaque_sub(v, a, b)
                    ELSE IF v \in AlphaOps THEN alpha_sub(v, a, b)
                    ELSE NoImpl

\* `a * b` for two pixels of variant v: only impl_struct_ops_opaque defines Mul
Mul_mul(v, a, b) == IF v \in OpaqueOps THEN opaque_mul(v, a, b) ELSE NoImpl

\* iter.fold(init, Add::add); a panic inside add ends the fold
RECURSIVE fold(_, _, _)
fold(v, acc, seq) == IF seq = <<>> \/ acc.tag # "ok"
                     THEN acc
                     ELSE fold(v, Add_add(v, acc.val, Head(seq)), Tail(seq))

\* a sum that starts from the first pixel and adds every pixel to it
opaque_sum_first_twice(v, seq) == IF seq = <<>> THEN Ok(DefaultPixel(v)) ELSE fold(v, Ok(Head(seq)), seq)

opaque_sum(v, seq) == fold(v, Ok(DefaultPixel(v)), seq)

alpha_sum(v, seq) == fold(v, Ok(DefaultPixel(v)), seq)

\* `seq.into_iter().sum()` for pixels of variant v
Sum_sum(v, seq) == IF v \in OpaqueOps THEN opaque_sum(v, seq)
                   ELSE IF v \in AlphaOps THEN alpha_sum(v, seq)
                   ELSE NoImpl

\* ------------------------------------------------------------ flat views

\* The memory of a buffer of pixels: the pixels one after another, each as
\* its fields in declaration order.
Memory(v, b) == [i \in 1..(Len(b) * Arity(v)) |->
                    b[((i - 1) \div Arity(v)) + 1][Fields(v)[((i - 1) % Arity(v)) + 1]]]

\* core::slice::from_raw_parts(ptr, n): the first n elements stored at ptr
from_raw_parts(mem, n) == [i \in 1..n |-> mem[i]]

\* RGB_as_slice with the stride of a two-channel pixel
RGB_as_slice_stride2(v, b) == from_raw_parts(Memory(v, b), Len(b) * 2)

\* impl ComponentSlice<T> for [$RGB<T>], $RGB = RGB, BGR
RGB_as_slice(v, b) == from_raw_parts(Memory(v, b), Len(b) * 3)

RGB_as_mut_slice(v, b) == from_raw_parts(Memory(v, b), Len(b) * 3)

\* impl ComponentSlice<T> for [GrayAlpha<T>]
GrayAlpha_as_slice(b) == from_raw_parts(Memory("GrayAlpha", b), Len(b) * 2)

GrayAlpha_as_mut_slice(b) == from_raw_parts(Memory("GrayAlpha", b), Len(b) * 2)

\* impl ComponentSlice<T> for [Gray<T>]
Gray_as_slice(b) == from_raw_parts(Memory("Gray", b), Len(b))

Gray_as_mut_slice(b) == from_raw_parts(Memory("Gray", b), Len(b))

\* the variants whose slices implement ComponentSlice in these sources
SliceVariants == {"RGB", "BGR", "Gray", "GrayAlpha"}

as_slice(v, b) == CASE v \in {"RGB", "BGR"} -> RGB_as_slice(v, b)
                    [] v = "GrayAlpha" -> GrayAlpha_as_slice(b)
                    [] v = "Gray" -> Gray_as_slice(b)

as_mut_slice(v, b) == CASE v \in {"RGB", "BGR"} -> RGB_as_mut_slice(v, b)
                        [] v = "GrayAlpha" -> GrayAlpha_as_mut_slice(b)
                        [] v = "Gray" -> Gray_as_mut_slice(b)

\* the buffer after x is stored in cell k (from 0) of its memory
WriteCell(v, b, k, x) ==
    [b EXCEPT ![(k \div Arity(v)) + 1][Fields(v)[(k % Arity(v)) + 1]] = x]

\* `buf.as_mut_slice()[k] = x` on [$RGB<T>]: the view is made from
\* self.as_mut_ptr(), the store goes to the buffer
RGB_as_mut_slice_store(v, b, k, x) == {WriteCell(v, b, k, x)}

\* `buf.as_mut_slice()[k] = x` on [GrayAlpha<T>]: the view is made from
\* self.as_ptr(), a pointer that must not be written through; the store is
\* undefined, the build may perform it or drop it
GrayAlpha_as_mut_slice_store(b, k, x) == {WriteCell("GrayAlpha", b, k, x), b}

\* `buf.as_mut_slice()[k] = x` on [Gray<T>]: as for [GrayAlpha<T>]
Gray_as_mut_slice_store(b, k, x) == {WriteCell("Gray", b, k, x), b}

\* the buffers a store through the mutable flat view can leave
as_mut_slice_store(v, b, k, x) ==
    CASE v \in {"RGB", "BGR"} -> RGB_as_mut_slice_store(v, b, k, x)
      [] v = "GrayAlpha" -> GrayAlpha_as_mut_slice_store(b, k, x)
      [] v = "Gray" -> Gray_as_mut_slice_store(b, k, x)

\* ------------------------------------------------------------ byte views

\* the bytes of one scalar in the host's byte order
NativeBytes(x) == CASE ty = "unit" -> <<>>
                    [] ty = "u8" -> <<x>>
                    [] ty = "u16" -> IF bigEndian THEN <<x \div 256, x % 256>>
                                                  ELSE <<x % 256, x \div 256>>

\* the memory of a flat view read as bytes
ByteMemory(slice) == [i \in 1..(Len(slice) * SizeOf(ty)) |->
                         NativeBytes(slice[((i - 1) \div SizeOf(ty)) + 1])[((i - 1) % SizeOf(ty)) + 1]]

\* size_of_val counting elements instead of bytes
size_of_val_elements(slice) == Len(slice)

\* std::mem::size_of_val(slice)
size_of_val(slice) == Len(slice) * SizeOf(ty)

\* as_bytes without its assert_ne!
as_bytes_unchecked(v, b) == LET slice == as_slice(v, b)
                            IN  Ok(from_raw_parts(ByteMemory(slice), size_of_val(slice)))

\* ComponentBytes::as_bytes
as_bytes(v, b) == IF SizeOf(ty) = 0
                  THEN Panic
                  ELSE LET slice == as_slice(v, b)
                       IN  Ok(from_raw_parts(ByteMemory(slice), size_of_val(slice)))

\* ComponentBytes::as_mut_bytes
as_mut_bytes(v, b) == IF SizeOf(ty) = 0
                      THEN Panic
                      ELSE LET slice == as_mut_slice(v, b)
                           IN  Ok(from_raw_parts(ByteMemory(slice), size_of_val(slice)))

\* ------------------------------------------- buffers: views, bytes and sums

BufVariants == {"RGB", "BGR", "RGBA", "Gray", "GrayAlpha"}

Init == /\ variant \in BufVariants
        /\ ty \in ScalarTypes
        /\ overflowChecks \in BOOLEAN
        /\ bigEndian \in BOOLEAN
        /\ buf = <<>>
        /\ p = DefaultPixel(variant)
        /\ q = DefaultPixel(variant)
        /\ arr = <<>>
        /\ op = "init"
        /\ arg = 0
        /\ res = None
        /\ steps = 0

\* the caller appends a pixel to its buffer
Push == /\ Len(buf) < MaxPixels
        /\ \E px \in Pixels(variant, BufSamples(ty)) : buf' = Append(buf, px)
        /\ op' = "push"
        /\ res' = None
        /\ UNCHANGED <<steps, variant, ty, overflowChecks, bigEndian, p, q, arr, arg>>

AsSlice == /\ variant \in SliceVariants
           /\ op' = "as_slice"
           /\ res' = Ok(as_slice(variant, buf))
           /\ UNCHANGED <<steps, variant, ty, overflowChecks, bigEndian, buf, p, q, arr, arg>>

AsMutSlice == /\ variant \in SliceVariants
              /\ op' = "as_mut_slice"
              /\ res' = Ok(as_mut_slice(variant, buf))
              /\ UNCHANGED <<steps, variant, ty, overflowChecks, bigEndian, buf, p, q, arr, arg>>

AsBytes == /\ variant \in SliceVariants
           /\ op' = "as_bytes"
           /\ res' = as_bytes(variant, buf)
           /\ UNCHANGED <<steps, variant, ty, overflowChecks, bigEndian, buf, p, q, arr, arg>>

AsMutBytes == /\ variant \in SliceVariants
              /\ op' = "as_mut_bytes"
              /\ res' = as_mut_bytes(variant, buf)
              /\ UNCHANGED <<steps, variant, ty, overflowChecks, bigEndian, buf, p, q, arr, arg>>

\* buf.iter().copied().sum(); the scalar type must have `+`
Sum == /\ ty # "unit"
       /\ op' = "sum"
       /\ res' = Sum_sum(variant, buf)
       /\ UNCHANGED <<steps, variant, ty, overflowChecks, bigEndian, buf, p, q, arr, arg>>

\* buf.as_mut_slice()[k] = x; res records the index and the value stored
WriteMut == /\ variant \in SliceVariants
            /\ \E k \in 0..(Len(as_mut_slice(variant, buf)) - 1) : \E x \in BufSamples(ty) :
                   /\ buf' \in as_mut_slice_store(variant, buf, k, x)
                   /\ res' = Ok([k |-> k, x |-> x])
            /\ op' = "write"
            /\ UNCHANGED <<steps, variant, ty, overflowChecks, bigEndian, p, q, arr, arg>>

Next == \/ Push
        \/ AsSlice
        \/ AsMutSlice
        \/ AsBytes
        \/ AsMutBytes
        \/ Sum
        \/ WriteMut

Spec == Init /\ [][Next]_vars

\* ------------------------------------------------- claims on Spec (buffers)

\* the arity the data model gives each variant
DeclaredArity(v) == CASE v \in {"RGB", "BGR"} -> 3
                      [] v \in {"RGBA", "BGRA"} -> 4
                      [] v = "GrayAlpha" -> 2
                      [] v = "Gray" -> 1

\* C1: as_slice on a buffer of N pixels of arity A returns a flat view of
\* length N*A whose element i is channel (i mod A), in declared order, of
\* pixel (i div A).
C1_FlatViewLayout ==
    op = "as_slice" =>
        LET A == DeclaredArity(variant)
            N == Len(buf)
        IN  /\ res.tag = "ok"
            /\ DOMAIN res.val = 1..(N * A)
            /\ \A i \in 0..(N * A - 1) :
                   res.val[i + 1] = buf[(i \div A) + 1][Fields(variant)[(i % A) + 1]]

C1_Witness ==
    /\ op = "as_slice"
    /\ variant = "BGR"
    /\ Len(buf) = 2
    /\ buf[2]["b"] # buf[2]["r"]
    /\ res.val[4] = buf[2]["b"]
    /\ res.val[6] = buf[2]["r"]

\* C2: for size_of(T) # 0, as_bytes and as_mut_bytes return a byte view of
\* length N * arity * size_of(T); an empty buffer gives length 0.
C2_ByteViewLength ==
    (op \in {"as_bytes", "as_mut_bytes"} /\ SizeOf(ty) # 0) =>
        /\ res.tag = "ok"
        /\ DOMAIN res.val = 1..(Len(buf) * DeclaredArity(variant) * SizeOf(ty))
        /\ (buf = <<>> => res.val = <<>>)

C2_Witness ==
    /\ op = "as_mut_bytes"
    /\ ty = "u16"
    /\ variant = "RGB"
    /\ Len(buf) = 2
    /\ res.tag = "ok"
    /\ DOMAIN res.val = 1..12

\* C3: a byte view requested for a zero-sized scalar aborts, for every buffer
\* including the empty one: nothing is returned and the buffer is unchanged.
C3_ZeroSizedAborts ==
    [][(op' \in {"as_bytes", "as_mut_bytes"} /\ SizeOf(ty') = 0)
          => (res' = Panic /\ buf' = buf)]_vars

C3_Witness ==
    /\ op = "as_bytes"
    /\ ty = "unit"
    /\ buf = <<>>
    /\ res = Panic

RECURSIVE ChanTotal(_, _)
ChanTotal(k, n) == IF n = 0 THEN 0 ELSE ChanTotal(k, n - 1) + buf[n][k]

\* C10: the sum of a sequence of pixels is a left fold with pixel addition
\* from the all-zero pixel: sum([]) is all-zero, sum([p]) = p,
\* sum([p1, p2]) = p1 + p2, and each channel of the sum is the scalar sum of
\* that channel over the sequence (wrapping, or aborting on overflow, as the
\* scalar `+` does).
C10_SumIsFold ==
    (op = "sum" /\ variant \in {"RGB", "Gray", "RGBA", "GrayAlpha"}) =>
        LET n == Len(buf)
            K == FieldSet(variant)
        IN  /\ (n = 0 => res = Ok([k \in K |-> 0]))
            /\ (n = 1 => res = Ok(buf[1]))
            /\ (n = 2 => res = Add_add(variant, buf[1], buf[2]))
            /\ IF overflowChecks /\ \E k \in K : ChanTotal(k, n) > MaxValue(ty)
               THEN res = Panic
               ELSE /\ res.tag = "ok"
                    /\ \A k \in K : res.val[k] = ChanTotal(k, n) % Modulus(ty)

C10_Witness ==
    /\ op = "sum"
    /\ variant = "RGBA"
    /\ ty = "u8"
    /\ Len(buf) = 2
    /\ res.tag = "ok"
    /\ res.val["a"] = 2
    /\ res.val["r"] = 0
    /\ buf[1]["r"] # buf[2]["r"]

\* ------------------------------------------------ array <-> struct, new

\* impl From<[T; 3]> for RGB<T>
RGB_from_array(other) == [r |-> other[1], g |-> other[2], b |-> other[3]]

\* impl From<RGB<T>> for [T; 3]
RGB_into_array(val) == <<val["r"], val["g"], val["b"]>>

\* impl From<[T; 4]> for RGBA<T>
RGBA_from_array(other) == [r |-> other[1], g |-> other[2], b |-> other[3], a |-> other[4]]

\* impl From<RGBA<T>> for [T; 4]
RGBA_into_array(val) == <<val["r"], val["g"], val["b"], val["a"]>>

\* BGR_from_array reading the array red-first
BGR_from_array_red_first(other) == [r |-> other[1], g |-> other[2], b |-> other[3]]

\* impl From<[T; 3]> for BGR<T>
BGR_from_array(other) == [b |-> other[1], g |-> other[2], r |-> other[3]]

\* impl From<BGR<T>> for [T; 3]
BGR_into_array(val) == <<val["b"], val["g"], val["r"]>>

\* impl From<[T; 4]> for BGRA<T>
BGRA_from_array(other) == [b |-> other[1], g |-> other[2], r |-> other[3], a |-> other[4]]

\* impl From<BGRA<T>> for [T; 4]
BGRA_into_array(val) == <<val["b"], val["g"], val["r"], val["a"]>>

\* `V::from(array)`
from_array(v, other) == CASE v = "RGB" -> RGB_from_array(other)
                          [] v = "BGR" -> BGR_from_array(other)
                          [] v = "RGBA" -> RGBA_from_array(other)
                          [] v = "BGRA" -> BGRA_from_array(other)

\* `<[T; N]>::from(pixel)`
into_array(v, val) == CASE v = "RGB" -> RGB_into_array(val)
                        [] v = "BGR" -> BGR_into_array(val)
                        [] v = "RGBA" -> RGBA_into_array(val)
                        [] v = "BGRA" -> BGRA_into_array(val)

\* RGB::new(r, g, b)
RGB_new(r, g, b) == [r |-> r, g |-> g, b |-> b]

\* BGR::new(b, g, r)
BGR_new(b, g, r) == [b |-> b, g |-> g, r |-> r]

\* `V::new(x, y, z)` with the arguments in the order they are passed
new(v, x, y, z) == CASE v = "RGB" -> RGB_new(x, y, z)
                     [] v = "BGR" -> BGR_new(x, y, z)

ConvVariants == {"RGB", "BGR", "RGBA", "BGRA"}

NewVariants == {"RGB", "BGR"}

InitConv == /\ variant \in ConvVariants
            /\ ty = "u8"
            /\ overflowChecks = FALSE
            /\ bigEndian = FALSE
            /\ buf = <<>>
            /\ p \in Pixels(variant, Samples(ty))
            /\ q = p
            /\ arr \in [1..Arity(variant) -> Samples(ty)]
            /\ op = "init"
            /\ arg = [n |-> 0, start |-> "none"]
            /\ res = None
            /\ steps = 0

\* let a: [T; N] = p.into()
IntoArray == /\ op' = "into_array"
             /\ arg' = [n |-> 1, start |-> "pixel"]
             /\ res' = Ok(into_array(variant, p))
             /\ UNCHANGED <<steps, variant, ty, overflowChecks, bigEndian, buf, p, q, arr>>

\* let px = V::from(arr)
FromArray == /\ op' = "from_array"
             /\ arg' = [n |-> 1, start |-> "array"]
             /\ res' = Ok(from_array(variant, arr))
             /\ UNCHANGED <<steps, variant, ty, overflowChecks, bigEndian, buf, p, q, arr>>

\* the last conversion's result converted back the other way
ConvertBack == /\ op \in {"into_array", "from_array"}
               /\ arg.n < MaxConv
               /\ IF op = "into_array"
                  THEN /\ op' = "from_array"
                       /\ res' = Ok(from_array(variant, res.val))
                  ELSE /\ op' = "into_array"
                       /\ res' = Ok(into_array(variant, res.val))
               /\ arg' = [arg EXCEPT !.n = arg.n + 1]
               /\ UNCHANGED <<steps, variant, ty, overflowChecks, bigEndian, buf, p, q, arr>>

\* let px = V::new(arr[0], arr[1], arr[2])
New == /\ variant \in NewVariants
       /\ op' = "new"
       /\ arg' = [n |-> 0, start |-> "new"]
       /\ res' = Ok(new(variant, arr[1], arr[2], arr[3]))
       /\ UNCHANGED <<steps, variant, ty, overflowChecks, bigEndian, buf, p, q, arr>>

\* let a: [T; 3] = V::new(arr[0], arr[1], arr[2]).into()
NewIntoArray == /\ variant \in NewVariants
                /\ op' = "new_into_array"
                /\ arg' = [n |-> 0, start |-> "new"]
                /\ res' = Ok(into_array(variant, new(variant, arr[1], arr[2], arr[3])))
                /\ UNCHANGED <<steps, variant, ty, overflowChecks, bigEndian, buf, p, q, arr>>

NextConv == \/ IntoArray
            \/ FromArray
            \/ ConvertBack
            \/ New
            \/ NewIntoArray

SpecConv == InitConv /\ [][NextConv]_vars

\* --------------------------------------------- claims on SpecConv

\* C4: for RGB, BGR, RGBA and BGRA, from-array puts array index i into the
\* i-th declared channel, into-array emits the channels in that order, and
\* every round trip (from a pixel or from an array, once or repeated) gives
\* back the value it started from.
C4_ArrayRoundTrip ==
    (op \in {"into_array", "from_array"}) =>
        LET A == DeclaredArity(variant)
            chan(i) == Fields(variant)[i]
        IN  /\ (arg.n = 1 /\ op = "from_array") =>
                   (DOMAIN res.val = FieldSet(variant)
                       /\ \A i \in 1..A : res.val[chan(i)] = arr[i])
            /\ (arg.n = 1 /\ op = "into_array") =>
                   (DOMAIN res.val = 1..A /\ \A i \in 1..A : res.val[i] = p[chan(i)])
            /\ (arg.n % 2 = 0 /\ arg.start = "pixel") => res.val = p
            /\ (arg.n % 2 = 0 /\ arg.start = "array") => res.val = arr
            /\ (arg.n % 2 = 1 /\ arg.start = "pixel") => res.val = into_array(variant, p)
            /\ (arg.n % 2 = 1 /\ arg.start = "array") => res.val = from_array(variant, arr)

C4_Witness ==
    /\ variant = "BGRA"
    /\ op = "into_array"
    /\ arg = [n |-> 4, start |-> "array"]
    /\ arr = <<255, 2, 0, 2>>
    /\ res.val = arr

\* C5: BGR8::from([z, y, x]) equals BGR8::new(x, y, z), and BGR8::new(x, y, z)
\* converted into an array is [z, y, x] (the crate's test: x=1, y=2, z=3).
C5_BgrNewAgreesWithTest ==
    LET x == arr[1]
        y == arr[2]
        z == arr[3]
    IN  /\ (variant = "BGR" /\ op = "new") => res.val = BGR_from_array(<<z, y, x>>)
        /\ (variant = "BGR" /\ op = "new_into_array") => res.val = <<z, y, x>>

\* ------------------------------------------------------- map and map_c

\* The callbacks handed to map and map_c. A callback is [kind, k]; the
\* closures of impl_scalar capture the scalar r as k.
\*   "invert"  |c| MAX - c
\*   "halve"   |c| c / 2
\*   "count"   a stateful FnMut: |c| { n += 1; c.wrapping_add(n - 1) }
Callbacks == {[kind |-> "invert", k |-> 0], [kind |-> "halve", k |-> 0], [kind |-> "count", k |-> 0]}

\* The value callback f returns for channel value c on its call number n
\* (n calls were made before it).
Call(f, n, c) == CASE f.kind = "invert" -> Ok(MaxValue(ty) - c)
                   [] f.kind = "halve" -> Ok(c \div 2)
                   [] f.kind = "count" -> Ok((c + n) % Modulus(ty))
                   [] f.kind = "sub" -> ScalarSub(c, f.k)
                   [] f.kind = "add" -> ScalarAdd(c, f.k)
                   [] f.kind = "mul" -> ScalarMul(c, f.k)
                   [] f.kind = "div" -> ScalarDiv(c, f.k)

\* impl ComponentSlice<T> for $RGB<T>: the three scalars stored in one pixel
RGB_pixel_as_slice(v, a) == from_raw_parts(Memory(v, <<a>>), 3)

\* $RGB::iter: self.as_slice().iter().cloned(), the channels as they are stored
RGB_iter(v, a) == RGB_pixel_as_slice(v, a)

\* impl ComponentMap for $RGB<T>, $RGB = RGB, BGR: f(self.r), f(self.g), f(self.b)
RGB_map(a, f) == Collect("RGB", [r |-> Call(f, 0, a["r"]), g |-> Call(f, 1, a["g"]), b |-> Call(f, 2, a["b"])])

\* impl ColorComponentMap for $RGB<T>
RGB_map_c(a, f) == Collect("RGB", [r |-> Call(f, 0, a["r"]), g |-> Call(f, 1, a["g"]), b |-> Call(f, 2, a["b"])])

\* impl ComponentMap for Gray<T>
Gray_map(a, f) == Collect("Gray", [k \in {"0"} |-> Call(f, 0, a["0"])])

\* impl ColorComponentMap for Gray<T>
Gray_map_c(a, f) == Collect("Gray", [k \in {"0"} |-> Call(f, 0, a["0"])])

\* GrayAlpha map that carries alpha through
GrayAlpha_map_keep_alpha(a, f) == Collect("GrayAlpha", [k \in {"0", "1"} |-> IF k = "0" THEN Call(f, 0, a["0"]) ELSE Ok(a["1"])])

\* impl ComponentMap for GrayAlpha<T>: GrayAlpha(f(self.0), f(self.1))
GrayAlpha_map(a, f) == Collect("GrayAlpha", [k \in {"0", "1"} |-> IF k = "0" THEN Call(f, 0, a["0"]) ELSE Call(f, 1, a["1"])])

\* GrayAlpha map_c that transforms alpha too
GrayAlpha_map_c_all(a, f) == Collect("GrayAlpha", [k \in {"0", "1"} |-> IF k = "0" THEN Call(f, 0, a["0"]) ELSE Call(f, 1, a["1"])])

\* impl ColorComponentMap for GrayAlpha<T, A>: GrayAlpha(f(self.0), self.1)
GrayAlpha_map_c(a, f) == Collect("GrayAlpha", [k \in {"0", "1"} |-> IF k = "0" THEN Call(f, 0, a["0"]) ELSE Ok(a["1"])])

\* ComponentMap for RGBA<T>: the transform applied to every channel, alpha
\* included
RGBA_map(a, f) == Collect("RGBA", [r |-> Call(f, 0, a["r"]), g |-> Call(f, 1, a["g"]), b |-> Call(f, 2, a["b"]), a |-> Call(f, 3, a["a"])])

\* the variants with a ColorComponentMap impl in these sources
MapCVariants == {"RGB", "BGR", "Gray", "GrayAlpha"}

\* `a.map(f)`
map(v, a, f) == CASE v \in {"RGB", "BGR"} -> RGB_map(a, f)
                  [] v = "Gray" -> Gray_map(a, f)
                  [] v = "GrayAlpha" -> GrayAlpha_map(a, f)
                  [] v = "RGBA" -> RGBA_map(a, f)

\* `a.map_c(f)`
map_c(v, a, f) == CASE v \in {"RGB", "BGR"} -> RGB_map_c(a, f)
                    [] v = "Gray" -> Gray_map_c(a, f)
                    [] v = "GrayAlpha" -> GrayAlpha_map_c(a, f)

\* ------------------------------------------------------ pixel (op) scalar

\* impl_scalar! {RGB}, {RGBA}, {Gray}, {GrayAlpha}
ScalarOps == {"RGB", "RGBA", "Gray", "GrayAlpha"}

\* `a - r`: self.map(|l| l - r)
scalar_sub(v, a, r) == IF v \in ScalarOps THEN map(v, a, [kind |-> "sub", k |-> r]) ELSE NoImpl

\* `a + r`: self.map(|l| l + r)
scalar_add(v, a, r) == IF v \in ScalarOps THEN map(v, a, [kind |-> "add", k |-> r]) ELSE NoImpl

\* `a * r`: self.map(|l| l * r)
scalar_mul(v, a, r) == IF v \in ScalarOps THEN map(v, a, [kind |-> "mul", k |-> r]) ELSE NoImpl

\* `a / r`: self.map(|l| l / r)
scalar_div(v, a, r) == IF v \in ScalarOps THEN map(v, a, [kind |-> "div", k |-> r]) ELSE NoImpl

\* ------------------------------------------------ the algebra on pixels

AlgVariants == {"RGB", "BGR", "RGBA", "Gray", "GrayAlpha"}

InitAlg == /\ variant \in AlgVariants
           /\ ty \in {"u8", "u16"}
           /\ overflowChecks \in BOOLEAN
           /\ bigEndian = FALSE
           /\ buf = <<>>
           /\ p \in Pixels(variant, Samples(ty))
           /\ q \in Pixels(variant, RhsSamples(ty))
           /\ arr = <<>>
           /\ op = "init"
           /\ arg = 0
           /\ res = None
           /\ steps = 0

\* p + q
PxAdd == /\ op' = "px_add"
         /\ arg' = 0
         /\ res' = Add_add(variant, p, q)
         /\ UNCHANGED <<steps, variant, ty, overflowChecks, bigEndian, buf, p, q, arr>>

\* p - q
PxSub == /\ op' = "px_sub"
         /\ arg' = 0
         /\ res' = Sub_sub(variant, p, q)
         /\ UNCHANGED <<steps, variant, ty, overflowChecks, bigEndian, buf, p, q, arr>>

\* p * q
PxMul == /\ op' = "px_mul"
         /\ arg' = 0
         /\ res' = Mul_mul(variant, p, q)
         /\ UNCHANGED <<steps, variant, ty, overflowChecks, bigEndian, buf, p, q, arr>>

\* p + s
ScAdd == /\ \E s \in Samples(ty) : arg' = s /\ res' = scalar_add(variant, p, s)
         /\ op' = "sc_add"
         /\ UNCHANGED <<steps, variant, ty, overflowChecks, bigEndian, buf, p, q, arr>>

\* p - s
ScSub == /\ \E s \in Samples(ty) : arg' = s /\ res' = scalar_sub(variant, p, s)
         /\ op' = "sc_sub"
         /\ UNCHANGED <<steps, variant, ty, overflowChecks, bigEndian, buf, p, q, arr>>

\* p * s
ScMul == /\ \E s \in Samples(ty) : arg' = s /\ res' = scalar_mul(variant, p, s)
         /\ op' = "sc_mul"
         /\ UNCHANGED <<steps, variant, ty, overflowChecks, bigEndian, buf, p, q, arr>>

\* p / s
ScDiv == /\ \E s \in Samples(ty) : arg' = s /\ res' = scalar_div(variant, p, s)
         /\ op' = "sc_div"
         /\ UNCHANGED <<steps, variant, ty, overflowChecks, bigEndian, buf, p, q, arr>>

\* p.map(f)
Map == /\ \E f \in Callbacks : arg' = f /\ res' = map(variant, p, f)
       /\ op' = "map"
       /\ UNCHANGED <<steps, variant, ty, overflowChecks, bigEndian, buf, p, q, arr>>

\* p.map_c(f)
MapC == /\ variant \in MapCVariants
        /\ \E f \in Callbacks : arg' = f /\ res' = map_c(variant, p, f)
        /\ op' = "map_c"
        /\ UNCHANGED <<steps, variant, ty, overflowChecks, bigEndian, buf, p, q, arr>>

NextAlg == \/ PxAdd
           \/ PxSub
           \/ PxMul
           \/ ScAdd
           \/ ScSub
           \/ ScMul
           \/ ScDiv
           \/ Map
           \/ MapC

SpecAlg == InitAlg /\ [][NextAlg]_vars

\* ----------------------------------------------------- claims on SpecAlg

\* the variants with pixel + pixel and pixel - pixel
AddVariants == {"RGB", "Gray", "RGBA", "GrayAlpha"}

\* C6: for RGB, Gray, RGBA and GrayAlpha, each channel k of p + q is
\* p.k + q.k and each channel k of p - q is p.k - q.k, alpha included; no
\* channel depends on another (a scalar operator that aborts aborts the whole
\* operation).
C6_AddSubChannelwise ==
    (op \in {"px_add", "px_sub"} /\ variant \in AddVariants) =>
        LET K == FieldSet(variant)
            c(k) == IF op = "px_add" THEN ScalarAdd(p[k], q[k]) ELSE ScalarSub(p[k], q[k])
        IN  IF \E k \in K : c(k).tag = "panic"
            THEN res = Panic
            ELSE /\ res.tag = "ok"
                 /\ DOMAIN res.val = K
                 /\ \A k \in K : res.val[k] = c(k).val

C6_Witness ==
    /\ op = "px_add"
    /\ variant = "RGBA"
    /\ ty = "u8"
    /\ p = [r |-> 0, g |-> 2, b |-> 0, a |-> 2]
    /\ q = [r |-> 255, g |-> 2, b |-> 2, a |-> 2]
    /\ res = Ok([r |-> 255, g |-> 4, b |-> 2, a |-> 4])

\* C7 as stated: pixel * pixel multiplies channel by channel for every
\* variant that has pixel + pixel, RGBA and GrayAlpha included.
C7_MulForEveryAddVariant ==
    (op = "px_mul" /\ variant \in AddVariants) =>
        LET K == FieldSet(variant)
            c(k) == ScalarMul(p[k], q[k])
        IN  IF \E k \in K : c(k).tag = "panic"
            THEN res = Panic
            ELSE /\ res.tag = "ok"
                 /\ DOMAIN res.val = K
                 /\ \A k \in K : res.val[k] = c(k).val

\* C7 amended: pixel * pixel is defined for RGB and Gray only, where it
\* multiplies channel by channel; RGBA and GrayAlpha have pixel + pixel and
\* pixel - pixel but no pixel * pixel.
C7_MulOnlyOpaque ==
    /\ (op = "px_mul" /\ variant \in {"RGB", "Gray"}) =>
           LET K == FieldSet(variant)
               c(k) == ScalarMul(p[k], q[k])
           IN  IF \E k \in K : c(k).tag = "panic"
               THEN res = Panic
               ELSE /\ res.tag = "ok"
                    /\ DOMAIN res.val = K
                    /\ \A k \in K : res.val[k] = c(k).val
    /\ (op = "px_mul" /\ variant \in {"RGBA", "GrayAlpha"}) => res = NoImpl
    /\ (op = "px_add" /\ variant \in {"RGBA", "GrayAlpha"}) => res # NoImpl

C7_Witness ==
    /\ op = "px_mul"
    /\ variant = "RGB"
    /\ ty = "u8"
    /\ p = [r |-> 2, g |-> 0, b |-> 2]
    /\ q = [r |-> 2, g |-> 255, b |-> 255]
    /\ ~overflowChecks
    /\ res = Ok([r |-> 4, g |-> 0, b |-> 254])

\* C8: p + s, p - s, p * s and p / s replace every channel c of p by
\* (c op s) with the same s; alpha is treated like every other channel.
C8_ScalarBroadcast ==
    (op \in {"sc_add", "sc_sub", "sc_mul", "sc_div"} /\ variant \in AddVariants) =>
        LET K == FieldSet(variant)
            c(k) == CASE op = "sc_add" -> ScalarAdd(p[k], arg)
                      [] op = "sc_sub" -> ScalarSub(p[k], arg)
                      [] op = "sc_mul" -> ScalarMul(p[k], arg)
                      [] op = "sc_div" -> ScalarDiv(p[k], arg)
        IN  IF \E k \in K : c(k).tag = "panic"
            THEN res = Panic
            ELSE /\ res.tag = "ok"
                 /\ DOMAIN res.val = K
                 /\ \A k \in K : res.val[k] = c(k).val

C8_Witness ==
    /\ op = "sc_add"
    /\ variant = "GrayAlpha"
    /\ arg = 2
    /\ p = ("0" :> 0) @@ ("1" :> 2)
    /\ res = Ok(("0" :> 2) @@ ("1" :> 4))

\* C14: for RGB and BGR and every callback f, stateful ones included,
\* p.map(f) is the pixel got by applying f to the channels in the order
\* p.iter() yields them (r,g,b for RGB; b,g,r for BGR) and storing the j-th
\* result in the j-th declared channel: map calls f on the channels in
\* declared order.
C14_MapInIterOrder ==
    (op = "map" /\ variant \in {"RGB", "BGR"}) =>
        LET it == RGB_iter(variant, p)
        IN  /\ res.tag = "ok"
            /\ DOMAIN res.val = FieldSet(variant)
            /\ \A j \in 1..3 : res.val[Fields(variant)[j]] = Call(arg, j - 1, it[j]).val

\* C9: GrayAlpha's map_c(f) has brightness f(p.0) and alpha exactly p.1;
\* its map(f) has brightness f(p.0) and alpha f(p.1); for RGB, BGR and Gray
\* map_c(f) and map(f) give the same result.
C9_MapCKeepsAlpha ==
    /\ (op = "map_c" /\ variant = "GrayAlpha") =>
           /\ res.tag = "ok"
           /\ res.val["0"] = Call(arg, 0, p["0"]).val
           /\ res.val["1"] = p["1"]
    /\ (op = "map" /\ variant = "GrayAlpha") =>
           /\ res.tag = "ok"
           /\ res.val["0"] = Call(arg, 0, p["0"]).val
           /\ res.val["1"] = Call(arg, 1, p["1"]).val
    /\ (op = "map_c" /\ variant \in {"RGB", "BGR", "Gray"}) => res = map(variant, p, arg)
    /\ (op = "map" /\ variant \in {"RGB", "BGR", "Gray"}) => res = map_c(variant, p, arg)

C9_Witness ==
    /\ op = "map_c"
    /\ variant = "GrayAlpha"
    /\ ty = "u8"
    /\ arg.kind = "invert"
    /\ p = ("0" :> 2) @@ ("1" :> 2)
    /\ res = Ok(("0" :> 253) @@ ("1" :> 2))

\* ------------------------------------- from_iter, Gray -> GrayAlpha

\* Iterator::next on an iterator over seq that has yielded pos elements
iter_next(seq, pos) == IF pos < Len(seq)
                       THEN [item |-> Ok(seq[pos + 1]), pos |-> pos + 1]
                       ELSE [item |-> None, pos |-> pos]

\* Option::unwrap
unwrap(opt) == IF opt.tag = "ok" THEN opt ELSE Panic

\* from_iter with unwrap_or_default in place of unwrap
RGB_from_iter_or_default(seq) ==
    LET n1 == iter_next(seq, 0)
        n2 == iter_next(seq, n1.pos)
        n3 == iter_next(seq, n2.pos)
        get(o) == IF o.tag = "ok" THEN o.val ELSE 0
    IN  [out |-> Ok([r |-> get(n1.item), g |-> get(n2.item), b |-> get(n3.item)]),
         pulled |-> n3.pos]

\* impl FromIterator<T> for RGB<T>: the pixel built, or the panic of the
\* first unwrap that finds the iterator empty, and how many elements were
\* taken from the iterator
RGB_from_iter(seq) ==
    LET n1 == iter_next(seq, 0)
        n2 == iter_next(seq, n1.pos)
        n3 == iter_next(seq, n2.pos)
    IN  IF unwrap(n1.item).tag = "panic" THEN [out |-> Panic, pulled |-> n1.pos]
        ELSE IF unwrap(n2.item).tag = "panic" THEN [out |-> Panic, pulled |-> n2.pos]
        ELSE IF unwrap(n3.item).tag = "panic" THEN [out |-> Panic, pulled |-> n3.pos]
        ELSE [out |-> Ok([r |-> unwrap(n1.item).val, g |-> unwrap(n2.item).val, b |-> unwrap(n3.item).val]),
              pulled |-> n3.pos]

\* impl From<Gray<T>> for GrayAlpha<T, u8>
Gray_into_GrayAlpha_u8(other) == ("0" :> other["0"]) @@ ("1" :> 255)

\* the u16 conversion with the opaque value of u8
Gray_into_GrayAlpha_u16_as_u8(other) == ("0" :> other["0"]) @@ ("1" :> 255)

\* impl From<Gray<T>> for GrayAlpha<T, u16>
Gray_into_GrayAlpha_u16(other) == ("0" :> other["0"]) @@ ("1" :> 65535)

\* `GrayAlpha::<T, TA>::from(gray)` for the alpha type ta
Gray_into_GrayAlpha(ta, other) == CASE ta = "u8" -> Gray_into_GrayAlpha_u8(other)
                                    [] ta = "u16" -> Gray_into_GrayAlpha_u16(other)

\* the brightness values Gray pixels are drawn from
GrayLevels(t) == IF t = "u8" THEN 0..255 ELSE {0, 200, 255, 256, 65535}

CtorVariants == {"RGB", "Gray"}

InitCtor == /\ variant \in CtorVariants
            /\ ty \in {"u8", "u16"}
            /\ overflowChecks = FALSE
            /\ bigEndian = FALSE
            /\ buf = <<>>
            /\ p \in IF variant = "Gray" THEN Pixels("Gray", GrayLevels(ty)) ELSE {DefaultPixel(variant)}
            /\ q = p
            /\ arr \in IF variant = "RGB"
                       THEN UNION {[1..n -> Samples(ty)] : n \in 0..MaxIter}
                       ELSE {<<>>}
            /\ op = "init"
            /\ arg = 0
            /\ res = None
            /\ steps = 0

\* let px: RGB<T> = arr.into_iter().collect()
FromIter == /\ variant = "RGB"
            /\ op' = "from_iter"
            /\ arg' = RGB_from_iter(arr).pulled
            /\ res' = RGB_from_iter(arr).out
            /\ UNCHANGED <<steps, variant, ty, overflowChecks, bigEndian, buf, p, q, arr>>

\* let ga: GrayAlpha<T, TA> = p.into(), TA = u8 or u16
GrayIntoGrayAlpha == /\ variant = "Gray"
                     /\ \E ta \in {"u8", "u16"} : arg' = ta /\ res' = Ok(Gray_into_GrayAlpha(ta, p))
                     /\ op' = "gray_into_gray_alpha"
                     /\ UNCHANGED <<steps, variant, ty, overflowChecks, bigEndian, buf, p, q, arr>>

NextCtor == \/ FromIter
            \/ GrayIntoGrayAlpha

SpecCtor == InitCtor /\ [][NextCtor]_vars

\* ---------------------------------------------------- claims on SpecCtor

\* C11: an RGB built from an iterator that yields n elements has r, g, b
\* equal to the first, second and third element when n >= 3, with exactly
\* three elements taken and the rest ignored; when n < 3 the construction
\* aborts and no pixel is returned.
C11_FromIterTakesThree ==
    op = "from_iter" =>
        IF Len(arr) >= 3
        THEN /\ res = Ok([r |-> arr[1], g |-> arr[2], b |-> arr[3]])
             /\ arg = 3
        ELSE /\ res = Panic
             /\ arg = Len(arr)

C11_Witness ==
    /\ op = "from_iter"
    /\ ty = "u8"
    /\ arr = <<2, 255>>
    /\ res = Panic

\* C12: Gray(v) converted to a GrayAlpha with u8 alpha has brightness v and
\* alpha 0xFF, and converted to a GrayAlpha with u16 alpha has brightness v
\* and alpha 0xFFFF, for every brightness v.
C12_GrayIntoGrayAlphaOpaque ==
    op = "gray_into_gray_alpha" =>
        /\ res.tag = "ok"
        /\ DOMAIN res.val = {"0", "1"}
        /\ res.val["0"] = p["0"]
        /\ (arg = "u8" => res.val["1"] = 255)
        /\ (arg = "u16" => res.val["1"] = 65535)

C12_Witness ==
    /\ op = "gray_into_gray_alpha"
    /\ ty = "u8"
    /\ arg = "u8"
    /\ p["0"] = 200
    /\ res = Ok(("0" :> 200) @@ ("1" :> 255))

\* ------------------------------------------------- in-place operators

\* Each operator gives the value assigned to *self, or the panic raised
\* while the right-hand side of the assignment is evaluated.

\* impl_struct_ops_opaque: AddAssign
opaque_add_assign(v, self, other) == Collect(v, [k \in FieldSet(v) |-> ScalarAdd(self[k], other[k])])

\* impl_struct_ops_opaque: MulAssign
opaque_mul_assign(v, self, other) == Collect(v, [k \in FieldSet(v) |-> ScalarMul(self[k], other[k])])

\* SubAssign computing other - self
opaque_sub_assign_swapped(v, self, other) == Collect(v, [k \in FieldSet(v) |-> ScalarSub(other[k], self[k])])

\* impl_struct_ops_opaque: SubAssign
opaque_sub_assign(v, self, other) == Collect(v, [k \in FieldSet(v) |-> ScalarSub(self[k], other[k])])

\* impl_struct_ops_alpha: AddAssign
alpha_add_assign(v, self, other) == Collect(v, [k \in FieldSet(v) |-> ScalarAdd(self[k], other[k])])

\* impl_struct_ops_alpha: SubAssign
alpha_sub_assign(v, self, other) == Collect(v, [k \in FieldSet(v) |-> ScalarSub(self[k], other[k])])

\* `a += b` for two pixels of variant v
AddAssign_add_assign(v, a, b) == IF v \in OpaqueOps THEN opaque_add_assign(v, a, b)
                                 ELSE IF v \in AlphaOps THEN alpha_add_assign(v, a, b)
                                 ELSE NoImpl

\* `a -= b` for two pixels of variant v
SubAssign_sub_assign(v, a, b) == IF v \in OpaqueOps THEN opaque_sub_assign(v, a, b)
                                 ELSE IF v \in AlphaOps THEN alpha_sub_assign(v, a, b)
                                 ELSE NoImpl

\* `a *= b` for two pixels of variant v: only impl_struct_ops_opaque defines it
MulAssign_mul_assign(v, a, b) == IF v \in OpaqueOps THEN opaque_mul_assign(v, a, b) ELSE NoImpl

\* impl_scalar: SubAssign<T>, *self = self.map(|l| l - r)
scalar_sub_assign(v, self, r) == IF v \in ScalarOps THEN map(v, self, [kind |-> "sub", k |-> r]) ELSE NoImpl

\* impl_scalar: AddAssign<T>
scalar_add_assign(v, self, r) == IF v \in ScalarOps THEN map(v, self, [kind |-> "add", k |-> r]) ELSE NoImpl

\* impl_scalar: MulAssign<T>
scalar_mul_assign(v, self, r) == IF v \in ScalarOps THEN map(v, self, [kind |-> "mul", k |-> r]) ELSE NoImpl

\* impl_scalar: DivAssign<T>
scalar_div_assign(v, self, r) == IF v \in ScalarOps THEN map(v, self, [kind |-> "div", k |-> r]) ELSE NoImpl

\* the variants with in-place operators
AssignVariants == {"RGB", "RGBA", "Gray", "GrayAlpha"}

InitAssign == /\ variant \in AssignVariants
              /\ ty = "u8"
              /\ overflowChecks \in BOOLEAN
              /\ bigEndian = FALSE
              /\ buf = <<>>
              /\ p \in Pixels(variant, {2}) \cup Pixels(variant, {255})
              /\ q \in Pixels(variant, RhsSamples(ty))
              /\ arr = <<>>
              /\ op = "init"
              /\ arg = 0
              /\ res = None
              /\ steps = 0

\* One in-place operator on p: `*self = value` when the right-hand side
\* evaluates, otherwise the panic leaves p as it was and ends the program.
Assign(name, a, out) == /\ steps < MaxAssign
                        /\ res.tag # "panic"
                        /\ out.tag \in {"ok", "panic"}
                        /\ op' = name
                        /\ arg' = a
                        /\ res' = out
                        /\ p' = IF out.tag = "ok" THEN out.val ELSE p
                        /\ steps' = steps + 1
                        /\ UNCHANGED <<variant, ty, overflowChecks, bigEndian, buf, q, arr>>

\* p += q
PxAddAssign == Assign("px_add_assign", 0, AddAssign_add_assign(variant, p, q))

\* p -= q
PxSubAssign == Assign("px_sub_assign", 0, SubAssign_sub_assign(variant, p, q))

\* p *= q
PxMulAssign == Assign("px_mul_assign", 0, MulAssign_mul_assign(variant, p, q))

\* p += s
ScAddAssign == \E s \in Samples(ty) : Assign("sc_add_assign", s, scalar_add_assign(variant, p, s))

\* p -= s
ScSubAssign == \E s \in Samples(ty) : Assign("sc_sub_assign", s, scalar_sub_assign(variant, p, s))

\* p *= s
ScMulAssign == \E s \in Samples(ty) : Assign("sc_mul_assign", s, scalar_mul_assign(variant, p, s))

\* p /= s
ScDivAssign == \E s \in Samples(ty) : Assign("sc_div_assign", s, scalar_div_assign(variant, p, s))

NextAssign == \/ PxAddAssign
              \/ PxSubAssign
              \/ PxMulAssign
              \/ ScAddAssign
              \/ ScSubAssign
              \/ ScMulAssign
              \/ ScDivAssign

SpecAssign == InitAssign /\ [][NextAssign]_vars

\* -------------------------------------------------- claims on SpecAssign

\* C15: every in-place operator agrees with its by-value operator: after
\* p += q, p -= q, p *= q (where defined), p += s, p -= s, p *= s or p /= s,
\* p is what p + q, p - q, p * q, p + s, p - s, p * s or p / s returns on the
\* old p (and the in-place operator aborts exactly when the by-value one
\* does), and q is unchanged; this holds after any sequence of in-place
\* operators.
C15_AssignAgreesWithByValue ==
    [][LET byValue == CASE op' = "px_add_assign" -> Add_add(variant, p, q)
                        [] op' = "px_sub_assign" -> Sub_sub(variant, p, q)
                        [] op' = "px_mul_assign" -> Mul_mul(variant, p, q)
                        [] op' = "sc_add_assign" -> scalar_add(variant, p, arg')
                        [] op' = "sc_sub_assign" -> scalar_sub(variant, p, arg')
                        [] op' = "sc_mul_assign" -> scalar_mul(variant, p, arg')
                        [] op' = "sc_div_assign" -> scalar_div(variant, p, arg')
       IN  /\ q' = q
           /\ byValue.tag \in {"ok", "panic"}
           /\ byValue.tag = "ok" => (res'.tag = "ok" /\ p' = byValue.val)
           /\ byValue.tag = "panic" => (res' = Panic /\ p' = p)]_vars

C15_Witness ==
    /\ op = "px_mul_assign"
    /\ variant = "RGB"
    /\ steps = 2
    /\ q = [r |-> 2, g |-> 2, b |-> 2]
    /\ p = [r |-> 8, g |-> 8, b |-> 8]
    /\ res.tag = "ok"

====
